---- MODULE Spec2Model ----
(***************************************************************************)
(* A model of purge-secrets.py: one sequential run of main(), which checks *)
(* for a Git working tree, creates a backup branch, and then, for every    *)
(* secret of SECRETS_TO_PURGE, writes a replacement-rule file, runs        *)
(* git_filter_repo on it through run_command and removes the file.         *)
(*                                                                         *)
(* The environment is what the script cannot decide: whether .git exists,  *)
(* and the exit status and captured streams of each shell command.         *)
(* Console lines are modelled without their leading emoji.                 *)
(***************************************************************************)
EXTENDS Integers, Sequences, FiniteSets, TLC

\* Exit statuses a shell command may return are 0..MaxReturnCode.
MaxReturnCode == 2

\* The list of secrets (the literals are abbreviated to their prefixes; they
\* stay three distinct strings in the order of the source).
SECRETS_TO_PURGE ==
    << "sk-proj-206f", "alcht_4VtV", "d714f7e6-91a5" >>

\* What a command may leave on its captured stdout and stderr.
StdoutTexts == {"", "out"}
StderrTexts == {"", "err"}

\* subprocess.run's outcome: a CompletedProcess, or the data of the
\* CalledProcessError raised for it.
Results ==
    [returncode : 0..MaxReturnCode, stdout : StdoutTexts, stderr : StderrTexts]

VARIABLES
    pc,         \* position in main(): "main", "check", "branch", "loop", "try", "finally", "exited"
    gitExists,  \* os.path.exists('.git')
    files,      \* the rule files of the working directory: name -> content
    i,          \* the loop index of enumerate(SECRETS_TO_PURGE)
    pending,    \* the SystemExit travelling through the finally block: <<>> or <<status>>
    calls,      \* the shell commands executed so far, with their outcome
    console,    \* the lines printed so far
    exitCode    \* <<>> while running, <<status>> once the process has ended

vars == << pc, gitExists, files, i, pending, calls, console, exitCode >>

NoFiles == [n \in {} |-> ""]

BranchCmd == "git branch backup-before-secret-purge"

\* Placeholder numbered from the 0-based loop index.
PlaceholderZeroBased(k) == "[REDACTED_API_KEY_" \o ToString(k) \o "]"

Placeholder(k) == "[REDACTED_API_KEY_" \o ToString(k + 1) \o "]"

TempFile(k) == "temp_replace_" \o ToString(k) \o ".txt"

RuleText(secret, placeholder) == secret \o "==>" \o placeholder

FilterRepoCmd(temp_file) == "python -m git_filter_repo --replace-text " \o temp_file

\* str(CalledProcessError) for a positive exit status.
CalledProcessErrorText(cmd, rc) ==
    "Command '" \o cmd \o "' returned non-zero exit status " \o ToString(rc) \o "."

\* run_command taking the "return e" way out of its except block although
\* check is set: the failure is printed and the caller goes on.
RunCommandReturnsOnFailure(cmd, check, res) ==
    IF check /\ res.returncode # 0
    THEN [ printed |-> << "Running: " \o cmd,
                          "Command failed: " \o CalledProcessErrorText(cmd, res.returncode) >>,
           exits   |-> FALSE,
           status  |-> 0 ]
    ELSE [ printed |-> << "Running: " \o cmd >>
                       \o (IF res.stdout # "" THEN << res.stdout >> ELSE << >>)
                       \o (IF res.stderr # "" THEN << res.stderr >> ELSE << >>),
           exits   |-> FALSE,
           status  |-> 0 ]

\* run_command ending the process with the command's own exit status.
RunCommandPropagatesStatus(cmd, check, res) ==
    IF check /\ res.returncode # 0
    THEN [ printed |-> << "Running: " \o cmd,
                          "Command failed: " \o CalledProcessErrorText(cmd, res.returncode) >>,
           exits   |-> TRUE,
           status  |-> res.returncode ]
    ELSE [ printed |-> << "Running: " \o cmd >>
                       \o (IF res.stdout # "" THEN << res.stdout >> ELSE << >>)
                       \o (IF res.stderr # "" THEN << res.stderr >> ELSE << >>),
           exits   |-> FALSE,
           status  |-> 0 ]

\* run_command(cmd, check) on the outcome res of subprocess.run: the lines it
\* prints, and whether it ends the process (and with which status).
RunCommand(cmd, check, res) ==
    IF check /\ res.returncode # 0
    THEN [ printed |-> << "Running: " \o cmd,
                          "Command failed: " \o CalledProcessErrorText(cmd, res.returncode) >>,
           exits   |-> TRUE,
           status  |-> 1 ]
    ELSE [ printed |-> << "Running: " \o cmd >>
                       \o (IF res.stdout # "" THEN << res.stdout >> ELSE << >>)
                       \o (IF res.stderr # "" THEN << res.stderr >> ELSE << >>),
           exits   |-> FALSE,
           status  |-> 0 ]

Banner == << "PURGING SECRETS FROM GIT HISTORY", "==================================================" >>

NotInRepoMessage == "Not in a Git repository!"

SuccessMessage == "Secrets have been purged from Git history!"

ForcePushCmd == "git push --force-with-lease origin main"

\* The next steps without the force-push command.
NextStepsWithoutForcePush ==
    << "IMPORTANT NEXT STEPS:",
       "1. Revoke and regenerate all exposed API keys immediately",
       "2. Update your deployment environment variables",
       "3. Force push to remote repository (this will rewrite history)",
       "4. Notify team members to re-clone the repository" >>

NextSteps ==
    << "IMPORTANT NEXT STEPS:",
       "1. Revoke and regenerate all exposed API keys immediately",
       "2. Update your deployment environment variables",
       "3. Force push to remote repository (this will rewrite history)",
       "4. Notify team members to re-clone the repository",
       "To force push (DESTRUCTIVE - rewrites remote history):",
       ForcePushCmd >>

\* os.remove(temp_file) guarded by os.path.exists(temp_file).
RemoveTempFile(fs, name) ==
    IF name \in DOMAIN fs
    THEN [n \in DOMAIN fs \ {name} |-> fs[n]]
    ELSE fs

\* The loop stopping one secret short.
HasNextSkipsLast(k) == k < Len(SECRETS_TO_PURGE) - 1

\* Whether enumerate(SECRETS_TO_PURGE) yields an item at index k.
HasNext(k) == k < Len(SECRETS_TO_PURGE)

Init ==
    /\ pc = "main"
    /\ gitExists \in BOOLEAN
    /\ files = NoFiles
    /\ i = 0
    /\ pending = << >>
    /\ calls = << >>
    /\ console = << >>
    /\ exitCode = << >>

PrintBanner ==
    /\ pc = "main"
    /\ console' = console \o Banner
    /\ pc' = "check"
    /\ UNCHANGED << gitExists, files, i, pending, calls, exitCode >>

\* The check without its sys.exit(1): the message is printed and main() goes on.
CheckRepositoryNoExit ==
    /\ pc = "check"
    /\ IF ~gitExists
       THEN console' = Append(console, NotInRepoMessage)
       ELSE UNCHANGED console
    /\ pc' = "branch"
    /\ UNCHANGED << gitExists, files, i, pending, calls, exitCode >>

CheckRepository ==
    /\ pc = "check"
    /\ IF ~gitExists
       THEN /\ console' = Append(console, NotInRepoMessage)
            /\ exitCode' = << 1 >>
            /\ pc' = "exited"
       ELSE /\ pc' = "branch"
            /\ UNCHANGED << console, exitCode >>
    /\ UNCHANGED << gitExists, files, i, pending, calls >>

\* main() without its run_command call for the backup branch.
CreateBackupBranchSkipped ==
    /\ pc = "branch"
    /\ console' = console \o << "Creating backup branch...", "Purging secrets from history..." >>
    /\ pc' = "loop"
    /\ UNCHANGED << gitExists, files, i, pending, calls, exitCode >>

CreateBackupBranch ==
    /\ pc = "branch"
    /\ \E res \in Results :
         LET r == RunCommand(BranchCmd, TRUE, res) IN
         /\ calls' = Append(calls, [cmd |-> BranchCmd, result |-> res, rules |-> << >>])
         /\ IF r.exits
            THEN /\ console' = console \o << "Creating backup branch..." >> \o r.printed
                 /\ exitCode' = << r.status >>
                 /\ pc' = "exited"
            ELSE /\ console' = console \o << "Creating backup branch..." >> \o r.printed
                                       \o << "Purging secrets from history..." >>
                 /\ pc' = "loop"
                 /\ UNCHANGED exitCode
    /\ UNCHANGED << gitExists, files, i, pending >>

WriteRuleFile ==
    /\ pc = "loop"
    /\ HasNext(i)
    /\ files' = (TempFile(i) :> RuleText(SECRETS_TO_PURGE[i + 1], Placeholder(i))) @@ files
    /\ pc' = "try"
    /\ UNCHANGED << gitExists, i, pending, calls, console, exitCode >>

\* What the rewrite tool reads when it is given the file named name.
ReadRules(fs, name) == IF name \in DOMAIN fs THEN << fs[name] >> ELSE << >>

InvokeFilterRepo ==
    /\ pc = "try"
    /\ \E res \in Results :
         LET cmd == FilterRepoCmd(TempFile(i))
             r   == RunCommand(cmd, TRUE, res) IN
         /\ calls' = Append(calls, [cmd |-> cmd, result |-> res,
                                    rules |-> ReadRules(files, TempFile(i))])
         /\ console' = console \o r.printed
         /\ pending' = IF r.exits THEN << r.status >> ELSE << >>
    /\ pc' = "finally"
    /\ UNCHANGED << gitExists, files, i, exitCode >>

\* The removal placed after the try block instead of in a finally clause: a
\* SystemExit leaves the loop before the file is removed.
CleanupNotInFinally ==
    /\ pc = "finally"
    /\ IF pending # << >>
       THEN /\ exitCode' = pending
            /\ pc' = "exited"
            /\ UNCHANGED << i, files >>
       ELSE /\ files' = RemoveTempFile(files, TempFile(i))
            /\ i' = i + 1
            /\ pc' = "loop"
            /\ UNCHANGED exitCode
    /\ UNCHANGED << gitExists, pending, calls, console >>

Cleanup ==
    /\ pc = "finally"
    /\ files' = RemoveTempFile(files, TempFile(i))
    /\ IF pending # << >>
       THEN /\ exitCode' = pending
            /\ pc' = "exited"
            /\ UNCHANGED i
       ELSE /\ i' = i + 1
            /\ pc' = "loop"
            /\ UNCHANGED exitCode
    /\ UNCHANGED << gitExists, pending, calls, console >>

Epilogue ==
    /\ pc = "loop"
    /\ ~HasNext(i)
    /\ console' = console \o << SuccessMessage >> \o NextSteps
    /\ exitCode' = << 0 >>
    /\ pc' = "exited"
    /\ UNCHANGED << gitExists, files, i, pending, calls >>

Next ==
    \/ PrintBanner
    \/ CheckRepository
    \/ CreateBackupBranch
    \/ WriteRuleFile
    \/ InvokeFilterRepo
    \/ Cleanup
    \/ Epilogue

Spec == Init /\ [][Next]_vars

(***************************************************************************)
(* Vocabulary of the properties.                                           *)
(***************************************************************************)
NumSecrets == Len(SECRETS_TO_PURGE)

Contains(seq, x) == \E k \in DOMAIN seq : seq[k] = x

Failed(c) == c.result.returncode # 0

\* The positions in calls of rewrite-tool invocations.
RewriteCalls == { j \in DOMAIN calls : calls[j].cmd # "git branch backup-before-secret-purge" }

BranchCalls == { j \in DOMAIN calls : calls[j].cmd = "git branch backup-before-secret-purge" }

\* The rule the spec expects for the secret at 1-based position n.
ExpectedRule(n) ==
    SECRETS_TO_PURGE[n] \o "==>[REDACTED_API_KEY_" \o ToString(n) \o "]"

\* The rewrite-tool command line for 0-based iteration k.
ExpectedCmd(k) ==
    "python -m git_filter_repo --replace-text temp_replace_" \o ToString(k) \o ".txt"

\* The lines printed from the "Running:" line of command cmd on.
ConsoleSince(cmd) ==
    LET starts == { k \in DOMAIN console : console[k] = "Running: " \o cmd } IN
    IF starts = {} THEN << >>
    ELSE LET first == CHOOSE k \in starts : \A m \in starts : k <= m IN
         SubSeq(console, first, Len(console))

\* The console ends with the operator's next steps: key rotation, environment
\* variables, force push (with its command), re-clone.
InstructionsPrinted ==
    /\ Contains(console, "1. Revoke and regenerate all exposed API keys immediately")
    /\ Contains(console, "2. Update your deployment environment variables")
    /\ Contains(console, "4. Notify team members to re-clone the repository")
    /\ console # << >>
    /\ console[Len(console)] = "git push --force-with-lease origin main"

AllRewritesSucceeded ==
    /\ Cardinality(RewriteCalls) = NumSecrets
    /\ \A j \in RewriteCalls : ~Failed(calls[j])

(***************************************************************************)
(* C1: if the backup-branch command fails while .git exists, the run is    *)
(* not halted: it ends having invoked the rewrite tool for every secret,   *)
(* as long as those invocations succeed.                                   *)
(***************************************************************************)
C1_BranchFailureIsNotFatal ==
    ( /\ pc = "exited"
      /\ gitExists
      /\ \E j \in BranchCalls : Failed(calls[j])
      /\ \A j \in RewriteCalls : ~Failed(calls[j]) )
    => Cardinality(RewriteCalls) = NumSecrets

(***************************************************************************)
(* C2: the rule file of iteration i exists only from its creation to the   *)
(* end of that iteration, whether the invocation succeeded or failed: at   *)
(* most one rule file exists at any time, it is the current iteration's,   *)
(* and none exists at the loop head or once the run has ended.             *)
(***************************************************************************)
C2_RuleFileNeverOutlivesIteration ==
    /\ Cardinality(DOMAIN files) <= 1
    /\ DOMAIN files \subseteq { "temp_replace_" \o ToString(i) \o ".txt" }
    /\ (files # NoFiles => pc \in {"try", "finally"})
    /\ (pc \in {"loop", "exited"} => files = NoFiles)

\* A run that ended on the failure of the second invocation, after the first
\* succeeded, with no rule file left.
C2_Witness ==
    /\ pc = "exited"
    /\ Len(calls) = 3
    /\ ~Failed(calls[2])
    /\ Failed(calls[3])
    /\ files = NoFiles

(***************************************************************************)
(* C3: once the rewrite-tool invocation for the secret at position k has   *)
(* failed, the run halts: that invocation is the last command, the loop    *)
(* index stays at k, no rule file of a later position is written, and the  *)
(* only step left is the cleanup before the exit.                          *)
(***************************************************************************)
C3_FailedRewriteHaltsTheRun ==
    \A j \in RewriteCalls :
        Failed(calls[j]) =>
            /\ j = Len(calls)
            /\ calls[j].cmd = ExpectedCmd(i)
            /\ pc \in {"finally", "exited"}
            /\ DOMAIN files \subseteq { "temp_replace_" \o ToString(i) \o ".txt" }
            /\ (pc = "exited" => exitCode # << 0 >>)

\* The run has ended after the invocation for the second secret failed.
C3_Witness ==
    /\ pc = "exited"
    /\ i = 1
    /\ Len(calls) = 3
    /\ Failed(calls[3])

(***************************************************************************)
(* C4: the rewrite tool is invoked once per secret, in list order, the     *)
(* n-th invocation reading '<n-th secret>==>[REDACTED_API_KEY_n]' from     *)
(* temp_replace_<n-1>.txt; a run in which no command fails makes exactly   *)
(* one invocation for each of the secrets.                                 *)
(***************************************************************************)
C4_OneRewritePerSecretInOrder ==
    /\ \A j \in RewriteCalls :
           /\ j >= 2
           /\ j - 1 <= NumSecrets
           /\ calls[j].cmd = ExpectedCmd(j - 2)
           /\ calls[j].rules = << ExpectedRule(j - 1) >>
    /\ ( ( /\ pc = "exited"
           /\ gitExists
           /\ \A j \in DOMAIN calls : ~Failed(calls[j]) )
         => /\ Len(calls) = NumSecrets + 1
            /\ RewriteCalls = 2 .. (NumSecrets + 1) )

\* A run without any failure has ended, its last invocation having read the
\* rule of the last secret.
C4_Witness ==
    /\ pc = "exited"
    /\ \A j \in DOMAIN calls : ~Failed(calls[j])
    /\ Len(calls) = NumSecrets + 1
    /\ calls[Len(calls)].rules = << "d714f7e6-91a5==>[REDACTED_API_KEY_3]" >>

(***************************************************************************)
(* C5: without a .git marker the run aborts with no side effect: no branch *)
(* command, no rule file, no rewrite-tool invocation; after the banner it  *)
(* prints the error message and nothing else.                              *)
(***************************************************************************)
C5_NoSideEffectsOutsideRepository ==
    ~gitExists =>
        /\ calls = << >>
        /\ files = NoFiles
        /\ pc \in {"main", "check", "exited"}
        /\ (pc = "exited" =>
                console = << "PURGING SECRETS FROM GIT HISTORY",
                             "==================================================",
                             "Not in a Git repository!" >>)

\* The run outside a repository has ended.
C5_Witness ==
    /\ ~gitExists
    /\ pc = "exited"
    /\ Contains(console, "Not in a Git repository!")

(***************************************************************************)
(* C6 as stated: the next-step instructions are printed at the end of      *)
(* every run that got past the precondition check (here: and whose branch  *)
(* command succeeded), also when a rewrite-tool invocation failed.         *)
(***************************************************************************)
C6_InstructionsAfterEveryRun ==
    ( /\ pc = "exited"
      /\ gitExists
      /\ \A j \in BranchCalls : ~Failed(calls[j]) )
    => InstructionsPrinted

(***************************************************************************)
(* C6 amended: the next-step instructions are the last output of exactly   *)
(* the runs in which the rewrite-tool invocation of every secret           *)
(* succeeded; a run that ends early prints none of them.                   *)
(***************************************************************************)
C6_InstructionsOnlyAfterFullSuccess ==
    /\ (pc = "exited" => (InstructionsPrinted <=> AllRewritesSucceeded))
    /\ (~AllRewritesSucceeded =>
            /\ ~Contains(console, "git push --force-with-lease origin main")
            /\ ~Contains(console, "IMPORTANT NEXT STEPS:"))

\* A fully successful run has ended with the instructions printed.
C6_Witness ==
    /\ pc = "exited"
    /\ AllRewritesSucceeded
    /\ InstructionsPrinted

(***************************************************************************)
(* C7: when a rewrite-tool invocation fails, its captured stdout and       *)
(* stderr are printed before the process terminates.                       *)
(***************************************************************************)
C7_FailedOutputIsPrinted ==
    pc = "exited" =>
        \A j \in RewriteCalls :
            Failed(calls[j]) =>
                /\ (calls[j].result.stdout # "" =>
                        Contains(ConsoleSince(calls[j].cmd), calls[j].result.stdout))
                /\ (calls[j].result.stderr # "" =>
                        Contains(ConsoleSince(calls[j].cmd), calls[j].result.stderr))

(***************************************************************************)
(* C8: the exit status is 0 when .git exists, the branch is created and    *)
(* every rewrite-tool invocation succeeds, and 1 when .git is missing or   *)
(* some rewrite-tool invocation fails; there is none while main() runs.    *)
(***************************************************************************)
C8_ExitStatus ==
    /\ (pc # "exited" => exitCode = << >>)
    /\ (pc = "exited" =>
            /\ ( ( /\ gitExists
                   /\ BranchCalls # {}
                   /\ \A j \in DOMAIN calls : ~Failed(calls[j]) )
                 => exitCode = << 0 >> )
            /\ ( ( \/ ~gitExists
                   \/ \E j \in RewriteCalls : Failed(calls[j]) )
                 => exitCode = << 1 >> ))

\* The run has ended after a rewrite-tool invocation returned status 2.
C8_Witness ==
    /\ pc = "exited"
    /\ \E j \in RewriteCalls : calls[j].result.returncode = 2
    /\ exitCode = << 1 >>

(***************************************************************************)
(* C9: the backup-branch command is attempted at most once, only when the  *)
(* precondition check has passed, and before the first rule file is        *)
(* written and before the first rewrite-tool invocation.                   *)
(***************************************************************************)
C9_BackupBranchFirst ==
    /\ BranchCalls \subseteq {1}
    /\ (calls # << >> => gitExists /\ pc \notin {"main", "check", "branch"})
    /\ ( ( \/ files # NoFiles
           \/ RewriteCalls # {}
           \/ pc \in {"loop", "try", "finally"} )
         => BranchCalls = {1} )

\* A rewrite-tool invocation has been made, after the branch command.
C9_Witness ==
    /\ RewriteCalls # {}
    /\ BranchCalls = {1}
    /\ files # NoFiles

(***************************************************************************)
(* C10: the success message is printed only when the rewrite-tool          *)
(* invocation of every secret has completed successfully, in a run inside  *)
(* a repository in which no executed command failed.                       *)
(***************************************************************************)
C10_SuccessMessageOnlyAfterFullSuccess ==
    Contains(console, "Secrets have been purged from Git history!") =>
        /\ gitExists
        /\ \A j \in DOMAIN calls : ~Failed(calls[j])
        /\ \A n \in 1 .. NumSecrets :
               \E j \in RewriteCalls : calls[j].rules = << ExpectedRule(n) >>

\* The success message has been printed.
C10_Witness ==
    /\ Contains(console, "Secrets have been purged from Git history!")
    /\ pc = "exited"

====
